---- MODULE Spec2Model ----
(***************************************************************************)
(* DevPilotAI backend: the POST /api/generate handler (generateCode), the  *)
(* store it reads and writes (User, generations) and the upstream          *)
(* generation API it calls.                                                *)
(*                                                                         *)
(* Strings are sequences of tokens.  A prompt or an upstream text is a     *)
(* sequence of characters, a language or a user id is a one-token string,  *)
(* an error message is a sequence of phrases; String.prototype.includes is *)
(* token membership and String.prototype.trim strips whitespace tokens.    *)
(* A JavaScript value is a record [t, s, n]: its type tag, its string      *)
(* content and its numeric content.                                        *)
(***************************************************************************)
EXTENDS Integers, Sequences, FiniteSets, TLC

\* ------------------------------------------------------------------ bounds
MaxLen == 2
MaxGenerations == 1
MaxTime == 1
MaxStored == 2
MaxExample == 25
MaxInFlight == 2

\* ------------------------------------------------------- JavaScript values
Undef == [t |-> "undefined", s |-> <<>>, n |-> 0]
Null == [t |-> "null", s |-> <<>>, n |-> 0]
Num(k) == [t |-> "number", s |-> <<>>, n |-> k]
Str(x) == [t |-> "string", s |-> x, n |-> 0]

\* ToBoolean: undefined, null, 0 and "" are falsy
Truthy(v) ==
  CASE v.t = "string" -> v.s # <<>>
    [] v.t = "number" -> v.n # 0
    [] OTHER -> FALSE

IsString(v) == v.t = "string"

Chars == {" ", "a"}

IsWhiteSpace(c) == c = " "

RECURSIVE TrimStart(_)
TrimStart(s) ==
  IF s = <<>> THEN s
  ELSE IF IsWhiteSpace(Head(s)) THEN TrimStart(Tail(s)) ELSE s

RECURSIVE TrimEnd(_)
TrimEnd(s) ==
  IF s = <<>> THEN s
  ELSE IF IsWhiteSpace(s[Len(s)]) THEN TrimEnd(SubSeq(s, 1, Len(s) - 1)) ELSE s

TrimLeadingOnly(s) == TrimStart(s)

\* String.prototype.trim
Trim(s) == TrimEnd(TrimStart(s))

\* String.prototype.includes, on phrases
Includes(s, phrase) == \E i \in 1..Len(s) : s[i] = phrase

Strings == UNION {[1..k -> Chars] : k \in 0..MaxLen}

\* ------------------------------------------------------------ request body
validLanguages == <<"Python", "JavaScript", "C++", "TypeScript">>

ArrayIncludes(arr, v) == \E i \in 1..Len(arr) : <<arr[i]>> = v.s

UserIds == {<<"u1">>}

PromptValues == {Undef, Num(0), Num(1)} \cup {Str(x) : x \in Strings}

LanguageValues ==
  {Undef, Num(1), Str(<<>>), Str(<<"Ruby">>), Str(<<"Python">>), Str(<<"C++">>)}

UserIdValues == {Undef, Num(0), Num(1), Str(<<>>)} \cup {Str(u) : u \in UserIds}

Bodies == [prompt : PromptValues, language : LanguageValues, userId : UserIdValues]

NoBody == [prompt |-> Undef, language |-> Undef, userId |-> Undef]

\* the whitespace check left out
PromptInvalidNoTrim(b) == ~Truthy(b.prompt) \/ ~IsString(b.prompt)

\* generate.ts:12
PromptInvalid(b) ==
  \/ ~Truthy(b.prompt)
  \/ ~IsString(b.prompt)
  \/ Len(Trim(b.prompt.s)) = 0

\* generate.ts:16
LanguageNotString(b) == ~Truthy(b.language) \/ ~IsString(b.language)

\* a fifth language let through
LanguageNotListedPlusRuby(b) ==
  ~ArrayIncludes(validLanguages \o <<"Ruby">>, b.language)

\* generate.ts:21
LanguageNotListed(b) == ~ArrayIncludes(validLanguages, b.language)

\* generate.ts:26
UserIdNotString(b) == Truthy(b.userId) /\ ~IsString(b.userId)

\* ---------------------------------------------------------------- responses
NoGen == [id |-> 0, prompt |-> <<>>, language |-> <<>>, code |-> <<>>,
          userId |-> Null, createdAt |-> 0]

NoResp == [status |-> 0, error |-> "", hasMessage |-> FALSE, message |-> <<>>,
           gen |-> NoGen]

\* res.status(s).json({ error })
ErrorResp(s, e) ==
  [status |-> s, error |-> e, hasMessage |-> FALSE, message |-> <<>>, gen |-> NoGen]

\* res.status(s).json({ error, message })
ErrorMessageResp(s, e, m) ==
  [status |-> s, error |-> e, hasMessage |-> TRUE, message |-> m, gen |-> NoGen]

\* res.json(generation)
GenerationResp(g) ==
  [status |-> 200, error |-> "", hasMessage |-> FALSE, message |-> <<>>, gen |-> g]

\* a || b on strings
OrElse(a, b) == IF a # <<>> THEN a ELSE b

\* the Error objects the handler catches: message, and status (0: undefined)
Err(m) == [message |-> m, status |-> 0]

\* generate.ts:82-116, the catch block
CatchResponse(error) ==
  IF Includes(error.message, "API_KEY_INVALID") \/ Includes(error.message, "API key")
  THEN ErrorMessageResp(401, "Invalid Gemini API key",
                        <<"Please check your GEMINI_API_KEY in the .env file">>)
  ELSE IF Includes(error.message, "quota") \/ Includes(error.message, "429")
  THEN ErrorMessageResp(429, "Gemini API quota exceeded",
                        <<"You have exceeded your Gemini API", "quota">>)
  ELSE IF error.status # 0
  THEN ErrorMessageResp(error.status, "Gemini API error",
                        OrElse(error.message, <<"Failed to generate code">>))
  ELSE ErrorMessageResp(500, "Failed to generate code",
                        OrElse(error.message, <<"An unexpected error occurred">>))

\* ------------------------------------------------------- the upstream API
\* What the fetch of generate.ts:43 resolves to: a rejection (transport
\* failure) or an HTTP response with a status, a status text and a body that
\* fails to parse or parses to an object that may carry an error field and a
\* first candidate's text.
NoUpstream ==
  [kind |-> "none", status |-> 0, statusText |-> <<>>, parse |-> "none",
   hasError |-> FALSE, errMsg |-> <<>>, text |-> Undef, msg |-> <<>>]

HttpStatuses == {200, 400, 429, 503}

TransportMessages == {<<"fetch failed">>}

ParseMessages == {<<"Unexpected token">>}

StatusTexts == {<<>>, <<"reason phrase">>}

BodyMessages ==
  {<<>>, <<"overloaded">>, <<"API key">>, <<"API_KEY_INVALID">>, <<"quota">>,
   <<"API key", "quota">>}

Texts == {Undef, Num(1)} \cup {Str(x) : x \in Strings}

Rejections ==
  {[NoUpstream EXCEPT !.kind = "reject", !.msg = m] : m \in TransportMessages}

FailureResponses ==
  LET base(st) == [NoUpstream EXCEPT !.kind = "http", !.status = st]
  IN  UNION {
        {[base(st) EXCEPT !.parse = "fail", !.statusText = t] : t \in StatusTexts}
        \cup {[base(st) EXCEPT !.parse = "object"]}
        \cup {[base(st) EXCEPT !.parse = "object", !.hasError = TRUE, !.errMsg = m]
                : m \in BodyMessages}
        : st \in HttpStatuses \ {200}}

SuccessResponses ==
  LET base == [NoUpstream EXCEPT !.kind = "http", !.status = 200]
  IN  {[base EXCEPT !.parse = "fail", !.msg = m] : m \in ParseMessages}
      \cup {[base EXCEPT !.parse = "object", !.hasError = e, !.text = x]
              : e \in BOOLEAN, x \in Texts}

Outcomes == Rejections \cup FailureResponses \cup SuccessResponses

\* response.ok
Ok(u) == u.kind = "http" /\ u.status \in 200..299

\* generate.ts:60-61, the message of the Error thrown for a failure status
FailureMessage(u) ==
  LET fallback == <<"API request failed with status", ToString(u.status)>>
      bodyMessage == IF u.parse = "fail" THEN u.statusText
                     ELSE IF u.hasError THEN u.errMsg ELSE <<>>
  IN  OrElse(bodyMessage, fallback)

\* generate.ts:43-65: does handling the outcome throw, and what
Throws(u) ==
  \/ u.kind = "reject"
  \/ ~Ok(u)
  \/ u.parse = "fail"
  \/ u.text.t = "number"

Thrown(u) ==
  IF u.kind = "reject" THEN Err(u.msg)
  ELSE IF ~Ok(u) THEN Err(FailureMessage(u))
  ELSE IF u.parse = "fail" THEN Err(u.msg)
  ELSE Err(<<"trim is not a function">>)

\* the text taken without trimming
GeneratedCodeNoTrim(u) == IF IsString(u.text) THEN u.text.s ELSE <<>>

\* generate.ts:65
GeneratedCode(u) == IF IsString(u.text) THEN Trim(u.text.s) ELSE <<>>

\* -------------------------------------------------------------- the store
StoreMessages == {<<"database unreachable">>, <<"API key">>, <<"quota">>}

ForeignKeyMessage == <<"Foreign key constraint failed">>

NoInstruction == [language |-> <<>>, prompt |-> <<>>]

\* ------------------------------------------------- GET /api/history, pure
\* A query parameter is undefined or a string of characters.
Digits == <<"0", "1", "2", "3", "4", "5", "6", "7", "8", "9">>

IsDigit(c) == \E i \in 1..Len(Digits) : Digits[i] = c

DigitValue(c) == (CHOOSE i \in 1..Len(Digits) : Digits[i] = c) - 1

\* the result of parseInt: NaN or an integer
NaN == [nan |-> TRUE, n |-> 0]

Integer(k) == [nan |-> FALSE, n |-> k]

\* the longest prefix of decimal digits, as a number; NaN when it is empty
RECURSIVE ParseDigits(_, _, _)
ParseDigits(s, acc, seen) ==
  IF s # <<>> /\ IsDigit(Head(s))
  THEN ParseDigits(Tail(s), 10 * acc + DigitValue(Head(s)), TRUE)
  ELSE IF seen THEN Integer(acc) ELSE NaN

\* parseInt(v): String(undefined) has no digits; leading whitespace is
\* skipped, a sign is read, then the digits; what follows them is ignored
\* (no parameter holds an "x", so the radix stays 10)
ParseInt(v) ==
  IF ~IsString(v) THEN NaN
  ELSE LET t == TrimStart(v.s)
           signed == t # <<>> /\ Head(t) \in {"-", "+"}
           negative == t # <<>> /\ Head(t) = "-"
           p == ParseDigits(IF signed THEN Tail(t) ELSE t, 0, FALSE)
       IN  IF p.nan THEN NaN
           ELSE IF negative THEN Integer(0 - p.n) ELSE p

\* parseInt(..) || d, taking the default for every falsy number
OrDefault(p, d) == IF p.nan \/ p.n = 0 THEN d ELSE p.n

DefaultPage == 1
DefaultLimit == 10
MaxLimit == 100

\* part_002:6
Page(q) == OrDefault(ParseInt(q.page), DefaultPage)

\* part_002:7
Limit(q) == OrDefault(ParseInt(q.limit), DefaultLimit)

SkipWholePages(page, limit) == page * limit

\* part_002:19
Skip(page, limit) == (page - 1) * limit

PageParams ==
  {Undef, Str(<<"0">>), Str(<<"2">>), Str(<<"-", "1">>), Str(<<"a">>)}

LimitParams ==
  {Undef, Str(<<"0">>), Str(<<"1">>), Str(<<"1", "0", "1">>), Str(<<"a">>)}

LanguageParams == {Undef, Str(<<"Python">>)}

Queries == [page : PageParams, limit : LimitParams, language : LanguageParams]

NoQuery == [page |-> Undef, limit |-> Undef, language |-> Undef]

\* part_002:22-25, the where clause
Where(q, g) == Truthy(q.language) => g.language = q.language.s

Matching(gens, q) == {gens[i] : i \in {j \in 1..Len(gens) : Where(q, gens[j])}}

\* prisma.generation.count({ where })
Count(gens, q) == Cardinality(Matching(gens, q))

RECURSIVE Perms(_)
Perms(S) ==
  IF S = {} THEN {<<>>}
  ELSE UNION {{<<x>> \o p : p \in Perms(S \ {x})} : x \in S}

\* orderBy: { createdAt: 'desc' }: every order of the rows by descending
\* createdAt; rows with equal createdAt come in any order
RECURSIVE Orders(_)
Orders(S) ==
  IF S = {} THEN {<<>>}
  ELSE LET newest == CHOOSE t \in {g.createdAt : g \in S} :
                       \A g \in S : g.createdAt <= t
           first == {g \in S : g.createdAt = newest}
       IN  {p \o rest : p \in Perms(first), rest \in Orders(S \ first)}

Min(a, b) == IF a <= b THEN a ELSE b

\* skip, take
Window(o, skip, take) == SubSeq(o, skip + 1, Min(Len(o), skip + take))

\* prisma.generation.findMany({ where, orderBy, skip, take, include })
FindMany(gens, q, skip, take) ==
  {Window(o, skip, take) : o \in Orders(Matching(gens, q))}

CeilRoundedDown(total, limit) == total \div limit

\* Math.ceil(total / limit)
Ceil(total, limit) ==
  IF total % limit = 0 THEN total \div limit ELSE total \div limit + 1

NoPagination ==
  [page |-> 0, limit |-> 0, total |-> 0, totalPages |-> 0,
   hasNext |-> FALSE, hasPrev |-> FALSE]

NoHistoryResp ==
  [status |-> 0, error |-> "", generations |-> <<>>, pagination |-> NoPagination]

\* res.status(s).json({ error })
HistoryError(s, e) == [NoHistoryResp EXCEPT !.status = s, !.error = e]

HistoryOkNextOnLastPage(list, page, limit, total) ==
  [status |-> 200, error |-> "", generations |-> list,
   pagination |->
     [page |-> page, limit |-> limit, total |-> total,
      totalPages |-> Ceil(total, limit),
      hasNext |-> page <= Ceil(total, limit),
      hasPrev |-> page > 1]]

\* part_002:47-59
HistoryOk(list, page, limit, total) ==
  [status |-> 200, error |-> "", generations |-> list,
   pagination |->
     [page |-> page, limit |-> limit, total |-> total,
      totalPages |-> Ceil(total, limit),
      hasNext |-> page < Ceil(total, limit),
      hasPrev |-> page > 1]]

\* rows that were in the store before the run: ids and timestamps below
\* those the run hands out
Seeded(i, lang, ts) ==
  [id |-> 0 - i, prompt |-> <<"a">>, language |-> <<lang>>, code |-> <<"a">>,
   userId |-> Null, createdAt |-> ts]

VARIABLES users, generations, nextId, now,
          pc, body, lookupResult, fullPrompt, upstream, generatedCode, resp,
          lookupCalls, fetchCalls, createCalls,
          hpc, hquery, hcounted, htotal, hfound, hlist, hresp, hprev, hrepeat, hstore,
          home, wire

store == <<users, generations, nextId, now>>
request == <<pc, body, lookupResult, fullPrompt, upstream, generatedCode, resp,
             lookupCalls, fetchCalls, createCalls>>
history == <<hpc, hquery, hcounted, htotal, hfound, hlist, hresp, hprev, hrepeat, hstore>>
ui == <<home, wire>>
vars == <<store, request, history, ui>>

\* no history request in flight
HistoryIdle ==
  /\ hpc = "idle"
  /\ hquery = NoQuery
  /\ hcounted = FALSE
  /\ htotal = 0
  /\ hfound = FALSE
  /\ hlist = <<>>
  /\ hresp = NoHistoryResp
  /\ hprev = NoHistoryResp
  /\ hrepeat = FALSE
  /\ hstore = <<>>

\* page.tsx:53-64 and 84-86: the state of the page once it is mounted, the
\* effect having called fetchHistory(1). home holds the state of the
\* component; wire holds what is in flight: generating is the body of the
\* POST in flight, fetching the pages of the history fetches in flight,
\* answered the answer the last POST got.
PageMounted ==
  /\ home = [prompt |-> <<>>, language |-> <<"Python">>, generatedCode |-> Null,
             isGenerating |-> FALSE, error |-> Null, history |-> <<>>,
             currentPage |-> 1, pagination |-> Null, isLoadingHistory |-> TRUE,
             historyError |-> Null, selectedGeneration |-> Null]
  /\ wire = [generating |-> NoBody, fetching |-> <<1>>, answered |-> NoResp]

\* no generate request in flight
RequestIdle ==
  /\ pc = "idle"
  /\ body = NoBody
  /\ lookupResult = "none"
  /\ fullPrompt = NoInstruction
  /\ upstream = NoUpstream
  /\ generatedCode = <<>>
  /\ resp = NoResp
  /\ lookupCalls = 0
  /\ fetchCalls = 0
  /\ createCalls = 0

Init ==
  /\ users = {}
  /\ generations = <<>>
  /\ nextId = 1
  /\ now = 0
  /\ RequestIdle
  /\ HistoryIdle
  /\ PageMounted

\* res.status(..).json(..): the handler ends
Respond(r) == pc' = "done" /\ resp' = r

\* generate.ts:39-57: build the instruction and issue the fetch
CallUpstream(b, calls) ==
  /\ fullPrompt' = [language |-> b.language.s, prompt |-> b.prompt.s]
  /\ fetchCalls' = calls + 1
  /\ pc' = "fetch"
  /\ resp' = NoResp

\* generate.ts:9-32, up to the first await
Receive(b) ==
  /\ pc = "idle"
  /\ nextId <= MaxGenerations
  /\ body' = b
  /\ lookupResult' = "none"
  /\ upstream' = NoUpstream
  /\ generatedCode' = <<>>
  /\ createCalls' = 0
  /\ IF PromptInvalid(b)
     THEN /\ Respond(ErrorResp(400, "Prompt is required and must be a non-empty string"))
          /\ fullPrompt' = NoInstruction /\ fetchCalls' = 0 /\ lookupCalls' = 0
     ELSE IF LanguageNotString(b)
     THEN /\ Respond(ErrorResp(400, "Language is required and must be a string"))
          /\ fullPrompt' = NoInstruction /\ fetchCalls' = 0 /\ lookupCalls' = 0
     ELSE IF LanguageNotListed(b)
     THEN /\ Respond(ErrorResp(400, "Language must be one of: Python, JavaScript, C++, TypeScript"))
          /\ fullPrompt' = NoInstruction /\ fetchCalls' = 0 /\ lookupCalls' = 0
     ELSE IF UserIdNotString(b)
     THEN /\ Respond(ErrorResp(400, "userId must be a string if provided"))
          /\ fullPrompt' = NoInstruction /\ fetchCalls' = 0 /\ lookupCalls' = 0
     ELSE IF Truthy(b.userId)
     THEN /\ pc' = "lookup" /\ resp' = NoResp
          /\ fullPrompt' = NoInstruction /\ fetchCalls' = 0 /\ lookupCalls' = 1
     ELSE /\ CallUpstream(b, 0)
          /\ lookupCalls' = 0
  /\ UNCHANGED <<store, history, ui>>

\* generate.ts:32-36: prisma.user.findUnique settles
LookupDone ==
  /\ pc = "lookup"
  /\ \/ \E m \in StoreMessages :
          /\ lookupResult' = "error"
          /\ Respond(CatchResponse(Err(m)))
          /\ UNCHANGED <<fullPrompt, fetchCalls>>
     \/ /\ body.userId.s \notin users
        /\ lookupResult' = "missing"
        /\ Respond(ErrorResp(404, "User not found"))
        /\ UNCHANGED <<fullPrompt, fetchCalls>>
     \/ /\ body.userId.s \in users
        /\ lookupResult' = "found"
        /\ CallUpstream(body, fetchCalls)
  /\ UNCHANGED <<store, body, upstream, generatedCode, lookupCalls, createCalls, history, ui>>

\* a failed upstream call attempted a second time
FetchDoneWithRetry(u) ==
  /\ pc = "fetch"
  /\ IF Throws(u) /\ fetchCalls < 2
     THEN /\ fetchCalls' = fetchCalls + 1
          /\ UNCHANGED <<pc, resp, upstream, generatedCode, createCalls>>
     ELSE /\ upstream' = u
          /\ UNCHANGED fetchCalls
          /\ IF Throws(u)
             THEN /\ Respond(CatchResponse(Thrown(u)))
                  /\ UNCHANGED <<generatedCode, createCalls>>
             ELSE IF GeneratedCode(u) = <<>>
             THEN /\ Respond(ErrorResp(500, "Failed to generate code"))
                  /\ UNCHANGED <<generatedCode, createCalls>>
             ELSE /\ generatedCode' = GeneratedCode(u)
                  /\ createCalls' = createCalls + 1
                  /\ pc' = "create"
                  /\ resp' = NoResp
  /\ UNCHANGED <<store, body, lookupResult, fullPrompt, lookupCalls, history, ui>>

\* generate.ts:43-72: the fetch settles; the body is read and checked
FetchDone(u) ==
  /\ pc = "fetch"
  /\ upstream' = u
  /\ IF Throws(u)
     THEN /\ Respond(CatchResponse(Thrown(u)))
          /\ UNCHANGED <<generatedCode, createCalls>>
     ELSE IF GeneratedCode(u) = <<>>
     THEN /\ Respond(ErrorResp(500, "Failed to generate code"))
          /\ UNCHANGED <<generatedCode, createCalls>>
     ELSE /\ generatedCode' = GeneratedCode(u)
          /\ createCalls' = createCalls + 1
          /\ pc' = "create"
          /\ resp' = NoResp
  /\ UNCHANGED <<store, body, lookupResult, fullPrompt, lookupCalls, fetchCalls, history, ui>>

\* generate.ts:77
StoredUserId(b) == IF Truthy(b.userId) THEN b.userId ELSE Null

\* the prompt stored as received
NewGenerationRawPrompt(b, code, id, ts) ==
  [id |-> id, prompt |-> b.prompt.s, language |-> b.language.s,
   code |-> code, userId |-> StoredUserId(b), createdAt |-> ts]

\* generate.ts:73-78 with the defaults of migration.sql:13-22
NewGeneration(b, code, id, ts) ==
  [id |-> id, prompt |-> Trim(b.prompt.s), language |-> b.language.s,
   code |-> code, userId |-> StoredUserId(b), createdAt |-> ts]

\* migration.sql:33-34: a non-null userId references an existing User
ForeignKeyUnchecked(g) == TRUE

\* generations_userId_fkey
ForeignKeyHolds(g) == g.userId = Null \/ g.userId.s \in users

CreateDoneReplacing ==
  /\ pc = "create"
  /\ \/ \E m \in StoreMessages :
          /\ Respond(CatchResponse(Err(m)))
          /\ UNCHANGED store
     \/ /\ ~ForeignKeyHolds(NewGeneration(body, generatedCode, nextId, now))
        /\ Respond(CatchResponse(Err(ForeignKeyMessage)))
        /\ UNCHANGED store
     \/ \E ts \in {now, now + 1} :
          /\ ts <= MaxTime
          /\ ForeignKeyHolds(NewGeneration(body, generatedCode, nextId, ts))
          /\ generations' = <<NewGeneration(body, generatedCode, nextId, ts)>>
          /\ nextId' = nextId + 1
          /\ now' = ts
          /\ Respond(GenerationResp(NewGeneration(body, generatedCode, nextId, ts)))
          /\ UNCHANGED users
  /\ UNCHANGED <<body, lookupResult, fullPrompt, upstream, generatedCode,
                 lookupCalls, fetchCalls, createCalls, history, ui>>

\* generate.ts:72-81: prisma.generation.create settles
CreateDone ==
  /\ pc = "create"
  /\ \/ \E m \in StoreMessages :
          /\ Respond(CatchResponse(Err(m)))
          /\ UNCHANGED store
     \/ /\ ~ForeignKeyHolds(NewGeneration(body, generatedCode, nextId, now))
        /\ Respond(CatchResponse(Err(ForeignKeyMessage)))
        /\ UNCHANGED store
     \/ \E ts \in {now, now + 1} :
          /\ ts <= MaxTime
          /\ ForeignKeyHolds(NewGeneration(body, generatedCode, nextId, ts))
          /\ generations' = Append(generations, NewGeneration(body, generatedCode, nextId, ts))
          /\ nextId' = nextId + 1
          /\ now' = ts
          /\ Respond(GenerationResp(NewGeneration(body, generatedCode, nextId, ts)))
          /\ UNCHANGED users
  /\ UNCHANGED <<body, lookupResult, fullPrompt, upstream, generatedCode,
                 lookupCalls, fetchCalls, createCalls, history, ui>>

\* the handler has returned; its locals are gone
Finish ==
  /\ pc = "done"
  /\ pc' = "idle"
  /\ body' = NoBody
  /\ lookupResult' = "none"
  /\ fullPrompt' = NoInstruction
  /\ upstream' = NoUpstream
  /\ generatedCode' = <<>>
  /\ resp' = NoResp
  /\ lookupCalls' = 0
  /\ fetchCalls' = 0
  /\ createCalls' = 0
  /\ UNCHANGED <<store, history, ui>>

\* a User row appears (registration is outside this system)
RegisterUser(u) ==
  /\ u \notin users
  /\ users' = users \cup {u}
  /\ UNCHANGED <<generations, nextId, now, request, history, ui>>

\* migration.sql:34, ON DELETE CASCADE
Cascade(gens, u) == SelectSeq(gens, LAMBDA g : g.userId # Str(u))

\* a User row is deleted, and its generations with it
DeleteUser(u) ==
  /\ u \in users
  /\ users' = users \ {u}
  /\ generations' = Cascade(generations, u)
  /\ UNCHANGED <<nextId, now, request, history, ui>>

\* ------------------------------------------------- GET /api/history
\* part_002:6-25: the parameters are read and checked; a valid request issues
\* both queries of the Promise.all
HStart(q) ==
  /\ hquery' = q
  /\ hcounted' = FALSE
  /\ htotal' = 0
  /\ hfound' = FALSE
  /\ hlist' = <<>>
  /\ IF Page(q) < 1
     THEN /\ hpc' = "done"
          /\ hresp' = HistoryError(400, "Page must be greater than 0")
     ELSE IF Limit(q) < 1 \/ Limit(q) > MaxLimit
     THEN /\ hpc' = "done"
          /\ hresp' = HistoryError(400, "Limit must be between 1 and 100")
     ELSE /\ hpc' = "query"
          /\ hresp' = NoHistoryResp

\* a GET /api/history arrives; hstore keeps the store it arrived at
HReceive(q) ==
  /\ hpc = "idle"
  /\ HStart(q)
  /\ hprev' = NoHistoryResp
  /\ hrepeat' = FALSE
  /\ hstore' = store
  /\ UNCHANGED <<store, request, ui>>

\* the client sends a request that succeeded once more; hprev keeps the first
\* answer
HRepeat ==
  /\ hpc = "done"
  /\ hresp.status = 200
  /\ ~hrepeat
  /\ HStart(hquery)
  /\ hprev' = hresp
  /\ hrepeat' = TRUE
  /\ UNCHANGED <<hstore, store, request, ui>>

\* part_002:47-59, once both queries have resolved
HRespond(list, total) ==
  /\ hpc' = "done"
  /\ hresp' = HistoryOk(list, Page(hquery), Limit(hquery), total)

\* part_002:29, prisma.generation.count resolves
HCount ==
  /\ hpc = "query"
  /\ ~hcounted
  /\ hcounted' = TRUE
  /\ htotal' = Count(generations, hquery)
  /\ IF hfound THEN HRespond(hlist, htotal') ELSE UNCHANGED <<hpc, hresp>>
  /\ UNCHANGED <<hquery, hfound, hlist, hprev, hrepeat, hstore, store, request, ui>>

HFindManyTaking ==
  /\ hpc = "query"
  /\ ~hfound
  /\ hfound' = TRUE
  /\ \E l \in FindMany(generations, hquery,
                       Skip(Page(hquery), Limit(hquery)), Limit(hquery)) :
       /\ hlist' = l
       /\ generations' =
            SelectSeq(generations, LAMBDA g : \A i \in 1..Len(l) : l[i] # g)
  /\ IF hcounted THEN HRespond(hlist', htotal) ELSE UNCHANGED <<hpc, hresp>>
  /\ UNCHANGED <<hquery, hcounted, htotal, hprev, hrepeat, hstore,
                 users, nextId, now, request, ui>>

\* part_002:30-44, prisma.generation.findMany resolves (the included user is
\* the User the row's userId names)
HFindMany ==
  /\ hpc = "query"
  /\ ~hfound
  /\ hfound' = TRUE
  /\ \E l \in FindMany(generations, hquery,
                       Skip(Page(hquery), Limit(hquery)), Limit(hquery)) :
       hlist' = l
  /\ IF hcounted THEN HRespond(hlist', htotal) ELSE UNCHANGED <<hpc, hresp>>
  /\ UNCHANGED <<hquery, hcounted, htotal, hprev, hrepeat, hstore, store, request, ui>>

\* part_002:60-63, one of the queries rejects
HFail ==
  /\ hpc = "query"
  /\ hpc' = "done"
  /\ hresp' = HistoryError(500, "Failed to fetch history")
  /\ UNCHANGED <<hquery, hcounted, htotal, hfound, hlist, hprev, hrepeat, hstore,
                 store, request, ui>>

\* the answer has been delivered
HFinish ==
  /\ hpc = "done"
  /\ hpc' = "idle"
  /\ hquery' = NoQuery
  /\ hcounted' = FALSE
  /\ htotal' = 0
  /\ hfound' = FALSE
  /\ hlist' = <<>>
  /\ hresp' = NoHistoryResp
  /\ hprev' = NoHistoryResp
  /\ hrepeat' = FALSE
  /\ hstore' = <<>>
  /\ UNCHANGED <<store, request, ui>>

\* ------------------------------------------------- GET /health
\* part_001:16-19: the handler answers { status: 'ok' } at once and reads or
\* writes nothing
Health == UNCHANGED <<store, request, history, ui>>

Next ==
  \/ \E b \in Bodies : Receive(b)
  \/ LookupDone
  \/ \E u \in Outcomes : FetchDone(u)
  \/ CreateDone
  \/ Finish
  \/ \E u \in UserIds : RegisterUser(u)
  \/ \E u \in UserIds : DeleteUser(u)

Spec == Init /\ [][Next]_vars

\* ------------------------------------------------- the three routes together
\* part_001:16-23: /health, POST /api/generate and GET /api/history served by
\* one process over a store that already holds rows

SeedLanguages == {"Python", "C++"}

SeedTimes == {0 - 1, 0}

\* a store of n rows in insertion order: ids ascend, createdAt never descends
SeedStore(langs, times) ==
  [i \in 1..Len(langs) |-> Seeded(Len(langs) + 1 - i, langs[i], times[i])]

SeedStores ==
  UNION {
    {SeedStore(langs, times) :
       langs \in [1..n -> SeedLanguages],
       times \in {t \in [1..n -> SeedTimes] : \A i \in 1..(n - 1) : t[i] <= t[i + 1]}}
    : n \in 0..MaxStored}

\* a larger store of rows written at different times
ExampleStore == [i \in 1..MaxExample |-> Seeded(MaxExample + 1 - i, "Python", i - MaxExample - 1)]

\* the API has no route that writes a User: requests carry no userId
ApiBodies ==
  {b \in Bodies : /\ b.prompt = Str(<<"a">>)
                  /\ b.language = Str(<<"Python">>)
                  /\ b.userId = Undef}

ApiOutcomes ==
  {u \in Outcomes : /\ Ok(u) /\ u.parse = "object" /\ ~u.hasError
                    /\ u.text = Str(<<"a">>)}

InitApi ==
  /\ users = {}
  /\ generations \in SeedStores \cup {ExampleStore}
  /\ nextId = 1
  /\ now = 0
  /\ RequestIdle
  /\ HistoryIdle
  /\ PageMounted

NextApi ==
  \/ \E b \in ApiBodies : Receive(b)
  \/ \E u \in ApiOutcomes : FetchDone(u)
  \/ CreateDone
  \/ Finish
  \/ \E q \in Queries : HReceive(q)
  \/ HCount
  \/ HFindMany
  \/ HFail
  \/ HFinish
  \/ Health

SpecApi == InitApi /\ [][NextApi]_vars

\* ------------------------------------------------- history requests alone
\* GET /api/history sent and sent again while nothing writes to the store
NextReads ==
  \/ \E q \in Queries : HReceive(q)
  \/ HRepeat
  \/ HCount
  \/ HFindMany
  \/ HFail
  \/ HFinish

SpecReads == InitApi /\ [][NextReads]_vars

\* ------------------------------------------------- the page (page.tsx)
\* The page and what the backend answers it. A handler runs to its next
\* await in one step: React applies the state updates of one such run
\* together.

\* page.tsx:30
LANGUAGES == <<"Python", "JavaScript", "C++", "TypeScript">>

\* page.tsx:32-40
getLanguageAlias(lang) ==
  IF lang = <<"Python">> THEN "python"
  ELSE IF lang = <<"JavaScript">> THEN "javascript"
  ELSE IF lang = <<"C++">> THEN "cpp"
  ELSE IF lang = <<"TypeScript">> THEN "typescript"
  ELSE "text"

\* the languages the user picks in the selector
PageLanguages == {<<LANGUAGES[1]>>, <<LANGUAGES[3]>>}

\* what the user types into the prompt field
PagePrompts == {<<" ">>, <<"a">>}

\* `${page}`: a positive number written in decimal digits
RECURSIVE ToDigits(_)
ToDigits(n) ==
  IF n < 10 THEN <<Digits[n + 1]>>
  ELSE ToDigits(n \div 10) \o <<Digits[(n % 10) + 1]>>

PageLimit == 10

\* page.tsx:70, the query of `/api/history?page=${page}&limit=10`
PageQuery(p) ==
  [page |-> Str(ToDigits(p)), limit |-> Str(ToDigits(PageLimit)), language |-> Undef]

\* the stores the backend may hold when a history fetch reaches it
PageStores == {<<>>, ExampleStore}

\* what a history fetch for page p is answered: the answer of getHistory over
\* one of the stores, or its 500
HistoryResponses(p) ==
  {HistoryError(500, "Failed to fetch history")}
  \cup UNION {
         {HistoryOk(l, Page(PageQuery(p)), Limit(PageQuery(p)), Count(g, PageQuery(p)))
            : l \in FindMany(g, PageQuery(p),
                             Skip(Page(PageQuery(p)), Limit(PageQuery(p))),
                             Limit(PageQuery(p)))}
         : g \in PageStores}

\* the pages the page can ask for: those of the largest store
PageNumbers == 1..Ceil(MaxExample, PageLimit)

\* the answers to each page the page can ask for
HistoryAnswers == [p \in PageNumbers |-> HistoryResponses(p)]

\* page.tsx:105, JSON.stringify({ prompt, language })
PageBody(p, l) == [prompt |-> Str(p), language |-> Str(l), userId |-> Undef]

\* the failures generateCode answers a valid body with: upstream failures,
\* an empty generation, store failures
GenerateFailures ==
  {CatchResponse(Thrown(u)) : u \in {o \in Outcomes : Throws(o)}}
  \cup {ErrorResp(500, "Failed to generate code")}
  \cup {CatchResponse(Err(m)) : m \in StoreMessages}

\* what the POST of body b is answered
GenerateResponses(b) ==
  {GenerationResp(NewGeneration(b, <<"a">>, 1, 0))} \cup GenerateFailures

\* page.tsx:108-111 and 120-128: the text put into error for a failure answer
\* r. The { error, message } thrown through JSON.stringify and read back
\* with JSON.parse keeps both strings.
ErrorShown(r) ==
  LET errorMessage ==
        IF r.message # <<>> THEN r.message
        ELSE IF r.error # "" THEN <<r.error>>
        ELSE <<"Failed to generate code">>
  IN  IF r.error = "OpenAI API quota exceeded" \/ Includes(errorMessage, "quota")
      THEN <<"OpenAI API quota exceeded. Please check your billing at https://platform.openai.com/account/billing">>
      ELSE errorMessage

\* page.tsx:67-70, fetchHistory up to its await, on the page state h
FetchHistoryStart(h) == [h EXCEPT !.isLoadingHistory = TRUE, !.historyError = Null]

\* page.tsx:71-81: the i-th fetch in flight is answered r
FetchHistoryDone(i, r) ==
  /\ i \in 1..Len(wire.fetching)
  /\ wire' = [wire EXCEPT !.fetching = SubSeq(@, 1, i - 1) \o SubSeq(@, i + 1, Len(@))]
  /\ home' = IF r.status \in 200..299
             THEN [home EXCEPT !.history = r.generations,
                               !.pagination = r.pagination,
                               !.isLoadingHistory = FALSE]
             ELSE [home EXCEPT !.historyError = Str(<<"Failed to fetch history">>),
                               !.isLoadingHistory = FALSE]
  /\ UNCHANGED <<store, request, history>>

\* page.tsx:284, the form is shown
FormShown == home.selectedGeneration = Null

\* page.tsx:298
SetPrompt(x) ==
  /\ FormShown
  /\ home' = [home EXCEPT !.prompt = x]
  /\ UNCHANGED <<wire, store, request, history>>

\* page.tsx:311
SetLanguage(l) ==
  /\ FormShown
  /\ home' = [home EXCEPT !.language = l]
  /\ UNCHANGED <<wire, store, request, history>>

\* page.tsx:88-106, the Generate button up to the await of the POST
HandleGenerate ==
  /\ FormShown
  /\ ~home.isGenerating
  /\ IF Trim(home.prompt) = <<>>
     THEN /\ home' = [home EXCEPT !.error = Str(<<"Please enter a prompt">>)]
          /\ UNCHANGED wire
     ELSE /\ home' = [home EXCEPT !.isGenerating = TRUE, !.error = Null,
                                  !.generatedCode = Null, !.selectedGeneration = Null]
          /\ wire' = [wire EXCEPT !.generating = PageBody(home.prompt, home.language)]
  /\ UNCHANGED <<store, request, history>>

\* page.tsx:108-141: the POST in flight is answered r
GenerateDone(r) ==
  /\ home.isGenerating
  /\ IF r.status \in 200..299
     THEN /\ Len(wire.fetching) < MaxInFlight
          /\ home' = [FetchHistoryStart(home) EXCEPT !.generatedCode = Str(r.gen.code),
                                                     !.selectedGeneration = Null,
                                                     !.currentPage = 1,
                                                     !.isGenerating = FALSE]
          /\ wire' = [generating |-> NoBody, fetching |-> Append(wire.fetching, 1),
                      answered |-> r]
     ELSE /\ home' = [home EXCEPT !.error = Str(ErrorShown(r)), !.isGenerating = FALSE]
          /\ wire' = [wire EXCEPT !.generating = NoBody, !.answered = r]
  /\ UNCHANGED <<store, request, history>>

\* page.tsx:208-222, the list of history items is shown
HistoryShown ==
  ~home.isLoadingHistory /\ home.historyError = Null /\ home.history # <<>>

\* page.tsx:255, the Prev and Next buttons are shown
PagerShown ==
  HistoryShown /\ home.pagination # Null /\ home.pagination.totalPages > 1

\* page.tsx:154-159
HandlePageChange(newPage) ==
  /\ Len(wire.fetching) < MaxInFlight
  /\ IF newPage >= 1 /\ home.pagination # Null /\ newPage <= home.pagination.totalPages
     THEN /\ home' = [FetchHistoryStart(home) EXCEPT !.currentPage = newPage]
          /\ wire' = [wire EXCEPT !.fetching = Append(@, newPage)]
     ELSE UNCHANGED <<home, wire>>
  /\ UNCHANGED <<store, request, history>>

\* page.tsx:257-263, the Prev button
Prev ==
  /\ PagerShown
  /\ home.pagination.hasPrev
  /\ HandlePageChange(home.currentPage - 1)

\* page.tsx:267-273, the Next button
NextPage ==
  /\ PagerShown
  /\ home.pagination.hasNext
  /\ HandlePageChange(home.currentPage + 1)

HandleHistoryClickKeepsCode(i) ==
  /\ HistoryShown
  /\ i \in 1..Len(home.history)
  /\ home' = [home EXCEPT !.selectedGeneration = home.history[i], !.prompt = <<>>]
  /\ UNCHANGED <<wire, store, request, history>>

\* page.tsx:161-165 and 226-228, a click on the i-th history item
HandleHistoryClick(i) ==
  /\ HistoryShown
  /\ i \in 1..Len(home.history)
  /\ home' = [home EXCEPT !.selectedGeneration = home.history[i],
                          !.generatedCode = Null, !.prompt = <<>>]
  /\ UNCHANGED <<wire, store, request, history>>

\* page.tsx:189-194, the New Chat button
NewChat ==
  /\ home' = [home EXCEPT !.selectedGeneration = Null, !.generatedCode = Null,
                          !.prompt = <<>>]
  /\ UNCHANGED <<wire, store, request, history>>

\* the history items the user clicks
ClickedItems == {1, 2}

NextPageApp ==
  \/ \E i \in 1..Len(wire.fetching) :
       \E r \in HistoryAnswers[wire.fetching[i]] : FetchHistoryDone(i, r)
  \/ \E x \in PagePrompts : SetPrompt(x)
  \/ \E l \in PageLanguages : SetLanguage(l)
  \/ HandleGenerate
  \/ \E r \in GenerateResponses(wire.generating) : GenerateDone(r)
  \/ Prev
  \/ NextPage
  \/ \E i \in ClickedItems : HandleHistoryClick(i)
  \/ NewChat

SpecPage == Init /\ [][NextPageApp]_vars

TypeOK ==
  /\ pc \in {"idle", "lookup", "fetch", "create", "done"}
  /\ body \in Bodies \cup {NoBody}
  /\ users \subseteq UserIds
  /\ nextId \in 1..(MaxGenerations + 1)

\* ------------------------------------------------- vocabulary of the claims
\* The four accepted languages, as the specification lists them
ListedLanguages == {<<"Python">>, <<"JavaScript">>, <<"C++">>, <<"TypeScript">>}

AllWhiteSpace(x) == \A i \in 1..Len(x) : x[i] = " "

\* t is x without its leading and trailing whitespace
IsTrimmed(t, x) ==
  /\ \E i \in 0..Len(x) : \E j \in i..Len(x) :
       /\ t = SubSeq(x, i + 1, j)
       /\ AllWhiteSpace(SubSeq(x, 1, i))
       /\ AllWhiteSpace(SubSeq(x, j + 1, Len(x)))
  /\ t # <<>> => t[1] # " " /\ t[Len(t)] # " "

\* prompt missing, not a string, empty or whitespace-only
PromptBad == ~IsString(body.prompt) \/ AllWhiteSpace(body.prompt.s)

\* language missing, not a string or not one of the four
LanguageBad == ~IsString(body.language) \/ body.language.s \notin ListedLanguages

\* no userId was supplied
UserIdAbsent == body.userId = Undef

\* the userId is one the handler does not look up: undefined, null, 0, ""
UserIdFalsy == body.userId \in {Undef, Null, Num(0), Str(<<>>)}

\* the upstream call succeeded at the HTTP layer and its body is a JSON object
UpstreamSucceeded == upstream.kind = "http" /\ upstream.status = 200 /\ upstream.parse = "object"

\* the upstream call failed at the transport or HTTP layer
UpstreamFailed ==
  \/ upstream.kind = "reject"
  \/ upstream.kind = "http" /\ upstream.status # 200

TextUsable == IsString(upstream.text) /\ ~AllWhiteSpace(upstream.text.s)

TextAbsentOrBlank ==
  \/ upstream.text = Undef
  \/ IsString(upstream.text) /\ AllWhiteSpace(upstream.text.s)

GenerationEmptyResp == ErrorResp(500, "Failed to generate code")

\* ------------------------------------------------------------------ claims

\* C1: a POST whose prompt and language are valid and whose userId is a string
\* matching no User is answered 404 "User not found", with no upstream call
\* and no Generation write.
C1_UnknownUserIsNotFound ==
  ( /\ pc = "done"
    /\ ~PromptBad /\ ~LanguageBad
    /\ IsString(body.userId)
    /\ \/ lookupResult = "missing"
       \/ lookupResult = "none" /\ body.userId.s \notin users )
  => /\ resp = ErrorResp(404, "User not found")
     /\ fetchCalls = 0
     /\ createCalls = 0

\* C2: a POST whose language is missing, not a string or not one of the four
\* listed languages is answered 400 without an upstream call or a store
\* write, whatever the prompt and the userId are.
C2_BadLanguageIsInvalidInput ==
  (pc = "done" /\ LanguageBad)
  => /\ resp.status = 400 /\ resp.gen = NoGen
     /\ fetchCalls = 0
     /\ createCalls = 0

C2_Witness ==
  /\ pc = "done"
  /\ ~PromptBad
  /\ body.language = Str(<<"Ruby">>)
  /\ body.userId \in {Str(u) : u \in UserIds}
  /\ resp.status = 400

\* C3: a POST whose prompt is missing, not a string, empty or whitespace-only
\* is answered 400 without an upstream call, a user lookup or a store write.
C3_BadPromptIsInvalidInput ==
  (pc = "done" /\ PromptBad)
  => /\ resp = ErrorResp(400, "Prompt is required and must be a non-empty string")
     /\ fetchCalls = 0
     /\ lookupCalls = 0
     /\ createCalls = 0

C3_Witness ==
  /\ pc = "done"
  /\ IsString(body.prompt) /\ body.prompt.s # <<>> /\ AllWhiteSpace(body.prompt.s)
  /\ ~LanguageBad
  /\ body.userId \in {Str(u) : u \in UserIds}
  /\ resp.status = 400

\* a valid request: valid prompt and language, and no userId or the id of a
\* User the lookup found
ValidRequest ==
  /\ ~PromptBad /\ ~LanguageBad
  /\ \/ UserIdAbsent /\ lookupResult = "none"
     \/ IsString(body.userId) /\ lookupResult = "found"

\* the fields of the record g, as the claim C4 states them
FieldsAsClaimed(g) ==
  /\ IsTrimmed(g.code, upstream.text.s)
  /\ IsTrimmed(g.prompt, body.prompt.s)
  /\ g.language = body.language.s
  /\ g.userId = (IF UserIdAbsent THEN Null ELSE body.userId)

\* C4 as stated: every valid POST whose upstream call succeeds with a
\* non-empty text ends with a persisted record that is the one returned.
C4_NonEmptyTextIsPersisted ==
  ( /\ pc = "done"
    /\ ValidRequest
    /\ UpstreamSucceeded
    /\ IsString(upstream.text) /\ upstream.text.s # <<>> )
  => /\ resp.status = 200
     /\ resp.gen # NoGen
     /\ FieldsAsClaimed(resp.gen)

\* C4, amended: when a valid POST whose upstream call succeeded with a text
\* that is non-empty after trimming ends, either the store write failed, the
\* answer is an error and nothing was persisted, or the record appended to
\* the generations is exactly the one returned, with the trimmed upstream
\* text as code, the trimmed prompt, the input language and the supplied
\* userId (null when none was supplied).
C4_PersistedIsReturned ==
  [][ ( /\ pc # "done" /\ pc' = "done"
        /\ ValidRequest' /\ UpstreamSucceeded' /\ TextUsable' )
      => \/ /\ resp'.status = 200
            /\ generations' = Append(generations, resp'.gen)
            /\ FieldsAsClaimed(resp.gen)'
         \/ /\ resp'.status # 200
            /\ resp'.gen = NoGen
            /\ generations' = generations ]_vars

C4_Witness ==
  /\ pc = "done"
  /\ ValidRequest /\ UpstreamSucceeded /\ TextUsable
  /\ body.prompt.s # resp.gen.prompt
  /\ upstream.text.s # resp.gen.code
  /\ IsString(body.userId)
  /\ resp.status = 200
  /\ generations = <<resp.gen>>

\* the request passed validation and the user lookup, if one was needed
PassedValidationAndLookup ==
  /\ ~PromptBad /\ ~LanguageBad
  /\ \/ UserIdFalsy /\ lookupResult = "none"
     \/ IsString(body.userId) /\ lookupResult = "found"

\* C5: an invocation never calls the upstream API or the store's create more
\* than once; one that passed validation and user lookup has, when it ends,
\* made exactly one upstream call, and exactly one Generation write if that
\* call succeeded with usable text, none otherwise.
C5_OneCallOneWrite ==
  /\ fetchCalls <= 1
  /\ createCalls <= 1
  /\ (pc = "done" /\ PassedValidationAndLookup)
     => /\ fetchCalls = 1
        /\ createCalls = (IF UpstreamSucceeded /\ TextUsable THEN 1 ELSE 0)

C5_Witness ==
  /\ pc = "done"
  /\ PassedValidationAndLookup
  /\ lookupResult = "found"
  /\ UpstreamFailed /\ upstream.status = 503
  /\ fetchCalls = 1
  /\ createCalls = 0

\* C6: when the upstream call answers with HTTP 429, the response is the
\* quota-exceeded variant (429, "Gemini API quota exceeded") and no
\* Generation is written, whatever the upstream body or message is.
C6_QuotaOn429 ==
  (pc = "done" /\ upstream.kind = "http" /\ upstream.status = 429)
  => /\ resp.status = 429
     /\ resp.error = "Gemini API quota exceeded"
     /\ createCalls = 0

\* C7: when the upstream call succeeds but the first candidate's text is
\* absent, empty or whitespace-only, the response is 500 "Failed to generate
\* code" without a message, no Generation is written, and no response to an
\* upstream failure equals it.
C7_GenerationEmpty ==
  /\ (pc = "done" /\ UpstreamSucceeded /\ TextAbsentOrBlank)
     => /\ resp = GenerationEmptyResp
        /\ createCalls = 0
  /\ (pc = "done" /\ UpstreamFailed) => resp # GenerationEmptyResp

C7_Witness ==
  /\ pc = "done"
  /\ UpstreamSucceeded
  /\ IsString(upstream.text) /\ upstream.text.s # <<>> /\ AllWhiteSpace(upstream.text.s)
  /\ resp.status = 500
  /\ ~resp.hasMessage

\* an UpstreamError response: one of the {error, message} variants
IsUpstreamErrorResp(r) ==
  /\ r.hasMessage
  /\ r.gen = NoGen
  /\ \/ r.status = 401 /\ r.error = "Invalid Gemini API key"
     \/ r.status = 429 /\ r.error = "Gemini API quota exceeded"
     \/ r.status \notin {200, 401, 429} /\ r.error \in {"Gemini API error", "Failed to generate code"}

\* C8: the response is an UpstreamError, and no Generation is written, both
\* when the upstream call fails at the transport or HTTP layer and when it
\* succeeds with a body that carries an error field.
C8_ErrorFieldIsUpstreamError ==
  (pc = "done" /\ (UpstreamFailed \/ (UpstreamSucceeded /\ upstream.hasError)))
  => /\ IsUpstreamErrorResp(resp)
     /\ createCalls = 0

\* C9: the response to an upstream failure that is answered neither as
\* invalid credentials nor as quota has the upstream HTTP status when there
\* is one, and 500 when there is none.
C9_StatusMirrorsUpstream ==
  ( /\ pc = "done"
    /\ UpstreamFailed
    /\ resp.error \notin {"Invalid Gemini API key", "Gemini API quota exceeded"} )
  => resp.status = (IF upstream.kind = "http" THEN upstream.status ELSE 500)

\* the upstream call failed at the HTTP layer and its error message reports
\* the API key
CredentialsFailure ==
  /\ upstream.kind = "http" /\ upstream.status # 200
  /\ upstream.parse = "object" /\ upstream.hasError
  /\ \/ \E i \in 1..Len(upstream.errMsg) : upstream.errMsg[i] = "API key"
     \/ \E i \in 1..Len(upstream.errMsg) : upstream.errMsg[i] = "API_KEY_INVALID"

\* C10: an upstream invalid-credentials failure is answered with the 401
\* variant, and no other failure (quota, generic upstream, store) is.
C10_Only401ForCredentials ==
  pc = "done" =>
    /\ CredentialsFailure => resp.status = 401 /\ resp.error = "Invalid Gemini API key"
    /\ resp.status = 401 => CredentialsFailure

\* the body carries a userId that is not a string
UserIdPresentNotString == body.userId # Undef /\ body.userId.t # "string"

\* C11: a request whose userId is present but not a string (0, false, a
\* number, an object), with prompt and language valid, is answered 400 and
\* writes no Generation.
C11_NonStringUserIdIsInvalidInput ==
  (pc = "done" /\ ~PromptBad /\ ~LanguageBad /\ UserIdPresentNotString)
  => /\ resp.status = 400
     /\ createCalls = 0

\* C20: in every reachable state every Generation with a non-null userId
\* references an existing User, also when the User is deleted between the
\* lookup of generateCode and its write.
C20_UserIdReferencesUser ==
  \A i \in 1..Len(generations) :
    generations[i].userId # Null => generations[i].userId.s \in users

\* the User found by the lookup was deleted before the write, and the write
\* was refused
C20_Witness ==
  /\ pc = "done"
  /\ lookupResult = "found"
  /\ body.userId.t = "string"
  /\ body.userId.s \notin users
  /\ createCalls = 1
  /\ resp.message = ForeignKeyMessage
  /\ generations = <<>>

\* ------------------------------------------------- claims on GET /api/history

\* the page parameter parses to an integer below 1
PageBelowOne == ~ParseInt(hquery.page).nan /\ ParseInt(hquery.page).n < 1

\* the limit parameter parses to an integer outside 1..100
LimitOutOfRange ==
  /\ ~ParseInt(hquery.limit).nan
  /\ (ParseInt(hquery.limit).n < 1 \/ ParseInt(hquery.limit).n > MaxLimit)

\* C12: GET /api/history is answered 400 whenever page parses to an integer
\* below 1 (page=0 included) or limit parses to an integer outside 1..100
\* (limit=0 and limit=101 included).
C12_OutOfRangeIsInvalidInput ==
  (hpc \in {"query", "done"} /\ (PageBelowOne \/ LimitOutOfRange))
  => /\ hpc = "done"
     /\ hresp.status = 400

\* the value a parameter stands for: its integer when it parses to one, the
\* default when it is absent or does not parse
ValueOrDefault(v, d) == IF ParseInt(v).nan THEN d ELSE ParseInt(v).n

\* C13: an absent or unparseable page or limit is replaced by its default (1,
\* 10), and the default is substituted only then, never for a value that
\* parsed to an integer: a successful answer carries the parsed values.
C13_DefaultOnlyOnParseFailure ==
  (hpc = "done" /\ hresp.status = 200)
  => /\ hresp.pagination.page = ValueOrDefault(hquery.page, DefaultPage)
     /\ hresp.pagination.limit = ValueOrDefault(hquery.limit, DefaultLimit)

\* the number of stored Generations the language filter of q lets through
CountMatching(gens, q) ==
  Cardinality({i \in 1..Len(gens) :
                 q.language = Undef \/ gens[i].language = q.language.s})

\* k is the least number of pages of the given size that hold total rows
IsPageCount(k, total, size) == k * size >= total /\ (k - 1) * size < total

\* C14: the pagination metadata echoes page and limit, total is the number of
\* Generations matching the language filter, totalPages is ceil(total/limit),
\* hasNext is page < totalPages and hasPrev is page > 1.
C14_PaginationMetadata ==
  [][ /\ (~hcounted /\ hcounted') => htotal' = CountMatching(generations, hquery)
      /\ (hpc = "query" /\ hpc' = "done" /\ hresp'.status = 200)
         => /\ hresp'.pagination.page = Page(hquery)
            /\ hresp'.pagination.limit = Limit(hquery)
            /\ hresp'.pagination.total = htotal'
            /\ IsPageCount(hresp'.pagination.totalPages, htotal', Limit(hquery))
            /\ hresp'.pagination.hasNext
                 = (Page(hquery) < hresp'.pagination.totalPages)
            /\ hresp'.pagination.hasPrev = (Page(hquery) > 1) ]_vars

\* 25 stored Generations, page 1, limit 10: total 25, totalPages 3, hasNext,
\* no hasPrev
C14_Witness ==
  /\ hpc = "done"
  /\ hresp.status = 200
  /\ Len(generations) = 25
  /\ hresp.pagination =
       [page |-> 1, limit |-> 10, total |-> 25, totalPages |-> 3,
        hasNext |-> TRUE, hasPrev |-> FALSE]

\* C15: every valid page beyond totalPages (totalPages 0 included) is
\* answered with success, an empty list, hasNext false, and hasPrev exactly
\* when page > 1.
C15_PageBeyondLastIsEmpty ==
  ( /\ hpc = "done"
    /\ hresp.status = 200
    /\ hresp.pagination.page > hresp.pagination.totalPages )
  => /\ hresp.generations = <<>>
     /\ ~hresp.pagination.hasNext
     /\ hresp.pagination.hasPrev = (hresp.pagination.page > 1)

\* the rows of gens the language filter of q lets through
MatchingRows(gens, q) ==
  {gens[i] : i \in {j \in 1..Len(gens) :
                      q.language = Undef \/ gens[j].language = q.language.s}}

\* l is the window of at most take rows that follows the first skip rows of
\* the rows S sorted by createdAt descending: its rows are different rows of
\* S, newest first, as many as are left after skip, and the row at place i
\* of l can stand at place skip + i of the sorted rows
IsWindow(l, S, skip, take) ==
  /\ \A i \in 1..Len(l) : l[i] \in S
  /\ \A i, j \in 1..Len(l) : i < j => l[i] # l[j] /\ l[i].createdAt >= l[j].createdAt
  /\ Len(l) = (IF Cardinality(S) <= skip THEN 0
               ELSE IF Cardinality(S) - skip <= take THEN Cardinality(S) - skip
               ELSE take)
  /\ \A i \in 1..Len(l) :
       /\ Cardinality({g \in S : g.createdAt > l[i].createdAt}) <= skip + i - 1
       /\ Cardinality({g \in S : g.createdAt >= l[i].createdAt}) >= skip + i

\* C16: the list returned is exactly the window of at most limit records that
\* follows the first (page-1)*limit records of the matching Generations
\* sorted by createdAt descending.
C16_ListIsTheWindow ==
  [][ (~hfound /\ hfound')
      => IsWindow(hlist', MatchingRows(generations, hquery),
                  (Page(hquery) - 1) * Limit(hquery), Limit(hquery)) ]_vars

\* the second page of ten of the 25 stored Generations: the 11th to the 20th
\* newest
C16_Witness ==
  /\ hpc = "done"
  /\ hresp.status = 200
  /\ hresp.pagination.page = 2
  /\ Len(generations) = 25
  /\ Len(hresp.generations) = 10
  /\ hresp.generations[1] = generations[15]
  /\ hresp.generations[10] = generations[6]

\* C17: the same GET /api/history sent twice with no write to the store in
\* between is answered with the same list and the same metadata, for every
\* store content, rows with equal createdAt included.
C17_RepeatedReadIsIdentical ==
  (hpc = "done" /\ hrepeat /\ hresp.status = 200 /\ store = hstore)
  => hresp = hprev

\* C18: no step of GET /api/history changes the store, on the success path,
\* the InvalidInput paths and the store failure path.
C18_HistoryLeavesStoreUnchanged ==
  [][history' # history => store' = store]_vars

\* a request over a store that holds rows was answered with rows, and the
\* store is as it was when the request arrived
C18_Witness ==
  /\ hpc = "done"
  /\ hresp.status = 200
  /\ hresp.generations # <<>>
  /\ generations # <<>>
  /\ store = hstore

\* C19: over every interleaving of POST /api/generate, GET /api/history and
\* GET /health, a persisted Generation is never changed or removed: the
\* stored Generations only grow.
C19_GenerationsOnlyGrow ==
  [][ /\ Len(generations') >= Len(generations)
      /\ \A i \in 1..Len(generations) : generations'[i] = generations[i] ]_vars

\* a Generation was written next to the ones stored before, while a history
\* request was in flight
C19_Witness ==
  /\ pc = "done"
  /\ resp.status = 200
  /\ Len(generations) = MaxStored + 1
  /\ generations[Len(generations)] = resp.gen
  /\ hpc = "query"
  /\ hstore # store

\* ------------------------------------------------- claims on the written record

\* C21: in every reachable state every Generation written by POST
\* /api/generate has a non-empty prompt with no leading or trailing
\* whitespace, a language among Python, JavaScript, C++, TypeScript, and a
\* non-empty code text.
C21_WrittenFieldsAreClean ==
  \A i \in 1..Len(generations) :
    /\ generations[i].prompt # <<>>
    /\ generations[i].prompt[1] # " "
    /\ generations[i].prompt[Len(generations[i].prompt)] # " "
    /\ generations[i].language \in ListedLanguages
    /\ generations[i].code # <<>>

\* a Generation was written for a prompt that came with whitespace around it
C21_Witness ==
  /\ pc = "done"
  /\ resp.status = 200
  /\ Len(generations) = 1
  /\ Len(body.prompt.s) > Len(generations[1].prompt)
  /\ body.prompt.s[Len(body.prompt.s)] = " "

\* the store failed during the user lookup or during the Generation write
StoreFailed ==
  \/ lookupResult = "error"
  \/ createCalls = 1 /\ resp.status # 200

\* the texts of the internal errors of the store
InternalErrorTexts == StoreMessages \cup {ForeignKeyMessage}

\* C22: a POST /api/generate that fails for an internal reason (the store
\* failing during the user lookup or the Generation write) is answered 500
\* with a generic message that does not depend on the internal error's text.
C22_InternalErrorIsGeneric ==
  (pc = "done" /\ StoreFailed)
  => /\ resp.status = 500
     /\ resp.message \notin InternalErrorTexts

\* C24: the instruction sent to the upstream API embeds the validated
\* language and the trimmed prompt, the prompt text that is later persisted,
\* for every valid input, prompts with leading or trailing whitespace
\* included.
C24_InstructionEmbedsTrimmedPrompt ==
  (pc \in {"fetch", "create", "done"} /\ fetchCalls = 1)
  => /\ fullPrompt.language = body.language.s
     /\ IsTrimmed(fullPrompt.prompt, body.prompt.s)
     /\ \A i \in 1..Len(generations) :
          generations[i].id = resp.gen.id => generations[i].prompt = fullPrompt.prompt

\* ------------------------------------------------- claims on total and list

\* the number of rows the window after skip rows holds in a store of total
\* matching rows
WindowLength(total, skip, take) ==
  IF total <= skip THEN 0
  ELSE IF total - skip <= take THEN total - skip
  ELSE take

\* C25: in a GET /api/history answer the reported total and the returned
\* list describe the same store content: also when a POST /api/generate
\* write is interleaved with the request, the list is the window of a store
\* holding exactly total matching records.
C25_TotalAndListAgree ==
  (hpc = "done" /\ hresp.status = 200)
  => Len(hresp.generations)
       = WindowLength(hresp.pagination.total,
                      (hresp.pagination.page - 1) * hresp.pagination.limit,
                      hresp.pagination.limit)

\* C26: with no concurrent write, for every accepted page, limit and filter,
\* the answer reports hasNext = true exactly when the request for page + 1
\* with the same limit and filter would return at least one record.
C26_HasNextIffNextPageNonEmpty ==
  (hpc = "done" /\ hresp.status = 200)
  => ( hresp.pagination.hasNext
       <=> \E l \in FindMany(generations, hquery,
                             hresp.pagination.page * hresp.pagination.limit,
                             hresp.pagination.limit) : l # <<>> )

\* the first page of one row of a store of two: the next page holds a row
C26_Witness ==
  /\ hpc = "done"
  /\ hresp.status = 200
  /\ hresp.pagination.hasNext
  /\ hresp.pagination.limit = 1
  /\ Len(hresp.generations) = 1
  /\ CountMatching(generations, hquery) = 2

\* ------------------------------------------------- claims on the page

\* C23: for every failed POST /api/generate answer with body {error,
\* message}, the text the page shows is the answer's message when it is
\* non-empty and otherwise its error, unchanged.
C23_PageShowsMessageElseError ==
  [][ (home.isGenerating /\ ~home'.isGenerating /\ wire'.answered.status \notin 200..299)
      => home'.error = Str(IF wire'.answered.message # <<>>
                           THEN wire'.answered.message
                           ELSE <<wire'.answered.error>>) ]_vars

\* C27: whenever no history fetch is in flight and the last fetch succeeded,
\* currentPage is the page number of the displayed pagination, for every
\* interleaving of Generate clicks, Prev/Next clicks and fetch completions,
\* answers arriving out of order included.
C27_CurrentPageIsDisplayedPage ==
  (wire.fetching = <<>> /\ home.historyError = Null /\ home.pagination # Null)
  => home.currentPage = home.pagination.page

\* C28: isLoadingHistory is true in every state in which at least one
\* history fetch is in flight, also when two fetches overlap.
C28_LoadingWhileFetching ==
  wire.fetching # <<>> => home.isLoadingHistory

\* C29: selectedGeneration and generatedCode are never both non-null, after
\* any sequence of Generate clicks, generate answers, history-item clicks
\* and New Chat clicks, a history click during a generation included.
C29_SelectedOrGeneratedNotBoth ==
  ~(home.selectedGeneration # Null /\ home.generatedCode # Null)

\* a history item was clicked while a generation was in flight, after an
\* earlier generation had put its code on the page
C29_Witness ==
  /\ home.isGenerating
  /\ home.selectedGeneration # Null
  /\ home.generatedCode = Null
  /\ wire.answered.status = 200

\* the language shown with newly generated code: label and highlighting
ShownLanguage ==
  IF home.selectedGeneration # Null THEN home.selectedGeneration.language
  ELSE home.language

\* C30: whenever the page displays newly generated code, the language shown
\* with it (label and syntax-highlighting alias) is the language sent in the
\* request that produced the code, also after the user changes the selector
\* during the request or after the code is shown.
C30_ShownLanguageIsSentLanguage ==
  (home.generatedCode # Null /\ home.selectedGeneration = Null)
  => /\ ShownLanguage = wire.answered.gen.language
     /\ getLanguageAlias(ShownLanguage) = getLanguageAlias(wire.answered.gen.language)

====
